---- MODULE Spec2Model ----
(***************************************************************************)
(* State-machine model of the EntitiesTable component                      *)
(* (src/EntitiesTable/EntitiesTable.tsx): the React state of the           *)
(* component, the router (URL query and history), the authentication flag, *)
(* the requests in flight at the data provider and the notification sink.  *)
(* One action per handler; every action includes the re-render and the     *)
(* dependency-triggered effect that React runs after the handler's state   *)
(* updates (updates made in one handler are batched into one render).      *)
(***************************************************************************)
EXTENDS Integers, Sequences, FiniteSets, TLC

\* ---------------------------------------------------------------- bounds
MaxPage == 2
MaxCount == 3
MaxRequests == 2
MaxSignOuts == 1

\* ------------------------------------------------------------- constants
\* getInitialPageSize() of package common: the default page size
DefaultPageSize == 2

VARIABLES
  isPaginationEnabled,  \* prop paginationOptions.isPaginationEnabled
  maxPageSize,          \* prop paginationOptions.maxPageSize, <<>> when unset
  query,                \* router query.pageNumber as characters, <<>> when absent
  historyLen,           \* number of entries of the browser history
  location,             \* "list" while the table page is shown, "detail" after a row click
  returnRoute,          \* pageNumber embedded in the returnRoute of the detail URL
  mounted,              \* the mount effect has run
  isAuthenticated,      \* getIsAuthenticated() as read by the last render
  currentPageNumber,
  currentPageSize,
  hasRetrievedData,
  entities,
  sortingState,
  totalPages,
  totalRecords,
  columns,              \* enableSorting of the columns handed to useReactTable
  inFlight,             \* variables of the requests issued and not yet answered
  issuedCount,          \* calls of executeRetrievePaginatedEntitiesQuery
  signOutCalls,         \* calls of signOut
  notifications,        \* calls of displayErrorNotification
  lastEvent,            \* history: the operation of the last step, its sort input and
                        \* the page number before it
  lastPayload           \* history: payload and request of the last successful response

props == <<isPaginationEnabled, maxPageSize>>
router == <<query, historyLen, location, returnRoute>>
fetched == <<hasRetrievedData, entities, totalPages, totalRecords>>
pageState == <<currentPageNumber, currentPageSize, sortingState>>
sinks == <<inFlight, issuedCount, signOutCalls, notifications>>
vars == <<props, router, fetched, pageState, sinks, mounted, isAuthenticated,
          columns, lastEvent, lastPayload>>

\* ------------------------------------------------------------ data sets
ColumnIds == {"name", "abn", "acn", "type.name", "status", "createdAtUtc"}

\* the sorting states the table hands to onSortingChange: none, one or two entries
SortInputs ==
  {<<>>,
   <<[id |-> "createdAtUtc", desc |-> TRUE]>>,
   <<[id |-> "name", desc |-> FALSE]>>,
   <<[id |-> "name", desc |-> TRUE]>>,
   <<[id |-> "name", desc |-> FALSE], [id |-> "createdAtUtc", desc |-> TRUE]>>}

\* values of ?pageNumber= in the URL the page is opened with
QueryStrings == {<<>>, <<"a">>, <<"0">>, <<"2">>}

MaxPageSizes == {<<>>, <<1>>}

\* the rows of a response: no row, one row or two rows
ResponseData == {<<>>, <<"e1">>, <<"e2", "e1">>}

NoEvent == [op |-> "init", sort |-> <<>>, page |-> 0]
NoPayload == [count |-> 0, data |-> <<>>, request |-> <<>>]

\* ---------------------------------------------------- number <-> string
Digits == <<"0", "1", "2", "3", "4", "5", "6", "7", "8", "9">>

DigitValue(c) == CHOOSE d \in 0..9 : Digits[d + 1] = c

IsDigit(c) == \E d \in 0..9 : Digits[d + 1] = c

RECURSIVE NumberToString(_)
\* `${currentPageNumber}` of a non-negative integer
NumberToString(n) ==
  IF n < 10 THEN <<Digits[n + 1]>>
  ELSE NumberToString(n \div 10) \o <<Digits[(n % 10) + 1]>>

RECURSIVE ParseDigits(_)
ParseDigits(s) ==
  IF s = <<>> THEN 0
  ELSE 10 * ParseDigits(SubSeq(s, 1, Len(s) - 1)) + DigitValue(s[Len(s)])

\* ------------------------------------- pagination helpers (package common)
getInitialPageSize == DefaultPageSize

getPageNumberFromQuerystring(q) ==
  IF q # <<>> /\ (\A i \in DOMAIN q : IsDigit(q[i])) /\ ParseDigits(q) >= 1
  THEN ParseDigits(q)
  ELSE 1

calculateRecordsToSkip(enabled, pageNumber, pageSize) ==
  IF enabled THEN (pageNumber - 1) * pageSize ELSE 0

calculateTotalPages(pageSize, count) == (count + pageSize - 1) \div pageSize

canPaginate(pageSize, count) == count > pageSize

\* --------------------------------------------------------- render values
\* const [firstSortingState] = sortingState; { desc, id } = firstSortingState ?? {}
\* an undefined value is the empty sequence, a defined one a one-element sequence
sortFieldOf(sorting) == IF sorting = <<>> THEN <<>> ELSE <<sorting[1].id>>

isDescendingSortOf(sorting) == IF sorting = <<>> THEN <<>> ELSE <<sorting[1].desc>>

sortField == sortFieldOf(sortingState)

isDescendingSort == isDescendingSortOf(sortingState)

getTableColumns_gt0(records) ==
  [c \in ColumnIds |-> IF c = "type.name" THEN FALSE ELSE records > 0]

getTableColumns(records) ==
  [c \in ColumnIds |-> IF c = "type.name" THEN FALSE ELSE records > 1]

\* the dependency array of the fetch effect
effectDeps ==
  <<currentPageNumber, currentPageSize, isAuthenticated, isDescendingSort, sortField>>

\* ------------------------------------------------------------ the effect
\* the variables of the request, lines 159-168
requestVariables_takePage(pageNumber, pageSize, sorting) ==
  [pagination |->
     [skip |-> calculateRecordsToSkip(isPaginationEnabled, pageNumber, pageSize),
      take |-> pageNumber],
   sort |-> [field |-> sortFieldOf(sorting), isDescending |-> isDescendingSortOf(sorting)]]

requestVariables(pageNumber, pageSize, sorting) ==
  [pagination |->
     [skip |-> calculateRecordsToSkip(isPaginationEnabled, pageNumber, pageSize),
      take |-> pageSize],
   sort |-> [field |-> sortFieldOf(sorting), isDescending |-> isDescendingSortOf(sorting)]]

signOut == signOutCalls' = signOutCalls + 1

executeRetrievePaginatedEntitiesQuery(variables) ==
  /\ inFlight' = Append(inFlight, variables)
  /\ issuedCount' = issuedCount + 1

\* the effect without its authentication guard
fetchEffect_noGuard ==
  /\ executeRetrievePaginatedEntitiesQuery(
       requestVariables(currentPageNumber', currentPageSize', sortingState'))
  /\ UNCHANGED signOutCalls

\* useEffect callback, run on the values of the render that follows the step
fetchEffect ==
  IF ~isAuthenticated'
  THEN signOut /\ UNCHANGED <<inFlight, issuedCount>>
  ELSE /\ executeRetrievePaginatedEntitiesQuery(
            requestVariables(currentPageNumber', currentPageSize', sortingState'))
       /\ UNCHANGED signOutCalls

\* the render after a step: the columns are rebuilt from totalRecords and the
\* effect runs when one of its dependencies differs from the previous render
render ==
  /\ columns' = getTableColumns(totalRecords')
  /\ IF effectDeps' # effectDeps
     THEN fetchEffect
     ELSE UNCHANGED <<inFlight, issuedCount, signOutCalls>>

\* the steps that may run the effect stop once the request or sign-out budget is used
WithinBudget == issuedCount < MaxRequests /\ signOutCalls < MaxSignOuts

Showing == mounted /\ location = "list"

\* ------------------------------------------------------------------ Init
Init ==
  /\ isPaginationEnabled \in BOOLEAN
  /\ maxPageSize \in MaxPageSizes
  /\ query \in QueryStrings
  /\ historyLen = 1
  /\ location = "list"
  /\ returnRoute = <<>>
  /\ mounted = FALSE
  /\ isAuthenticated \in BOOLEAN
  /\ currentPageNumber = getPageNumberFromQuerystring(query)
  /\ currentPageSize = (IF maxPageSize # <<>> THEN maxPageSize[1] ELSE getInitialPageSize)
  /\ hasRetrievedData = FALSE
  /\ entities = <<>>
  /\ sortingState = <<[id |-> "createdAtUtc", desc |-> TRUE]>>
  /\ totalPages = 0
  /\ totalRecords = 0
  /\ columns = getTableColumns(0)
  /\ inFlight = <<>>
  /\ issuedCount = 0
  /\ signOutCalls = 0
  /\ notifications = 0
  /\ lastEvent = NoEvent
  /\ lastPayload = NoPayload

\* --------------------------------------------------------------- actions
\* first render committed: the effect runs for the first time
Mount ==
  /\ ~mounted /\ location = "list"
  /\ mounted' = TRUE
  /\ UNCHANGED <<props, router, fetched, pageState, isAuthenticated, columns,
                 notifications, lastPayload>>
  /\ fetchEffect
  /\ lastEvent' = [op |-> "mount", sort |-> <<>>, page |-> currentPageNumber]

handlePageNumberChange(number) ==
  /\ Showing /\ WithinBudget
  /\ currentPageNumber' = number
  /\ UNCHANGED <<props, router, fetched, currentPageSize, sortingState, mounted,
                 isAuthenticated, notifications, lastPayload>>
  /\ render
  /\ lastEvent' = [op |-> "page", sort |-> <<>>, page |-> currentPageNumber]

\* a sort handler whose two updates are rendered one after the other
handleSortColumnChange_unbatched(newSortingState) ==
  /\ Showing /\ WithinBudget
  /\ currentPageNumber' = 1
  /\ sortingState' = newSortingState
  /\ UNCHANGED <<props, router, fetched, currentPageSize, mounted,
                 isAuthenticated, notifications, lastPayload, signOutCalls>>
  /\ columns' = getTableColumns(totalRecords')
  /\ LET first == IF currentPageNumber # 1 /\ isAuthenticated
                  THEN <<requestVariables(1, currentPageSize, sortingState)>>
                  ELSE <<>>
         second == IF isAuthenticated
                      /\ (sortFieldOf(newSortingState) # sortField
                          \/ isDescendingSortOf(newSortingState) # isDescendingSort)
                   THEN <<requestVariables(1, currentPageSize, newSortingState)>>
                   ELSE <<>>
     IN /\ inFlight' = inFlight \o first \o second
        /\ issuedCount' = issuedCount + Len(first) + Len(second)
  /\ lastEvent' = [op |-> "sort", sort |-> newSortingState, page |-> currentPageNumber]

\* a sort handler that keeps the page number
handleSortColumnChange_keepPage(newSortingState) ==
  /\ Showing /\ WithinBudget
  /\ sortingState' = newSortingState
  /\ UNCHANGED <<props, router, fetched, currentPageNumber, currentPageSize, mounted,
                 isAuthenticated, notifications, lastPayload>>
  /\ render
  /\ lastEvent' = [op |-> "sort", sort |-> newSortingState, page |-> currentPageNumber]

handleSortColumnChange(newSortingState) ==
  /\ Showing /\ WithinBudget
  /\ currentPageNumber' = 1
  /\ sortingState' = newSortingState
  /\ UNCHANGED <<props, router, fetched, currentPageSize, mounted,
                 isAuthenticated, notifications, lastPayload>>
  /\ render
  /\ lastEvent' = [op |-> "sort", sort |-> newSortingState, page |-> currentPageNumber]

\* the session starts or ends and the component renders again
authenticationChange ==
  /\ Showing /\ WithinBudget
  /\ isAuthenticated' = ~isAuthenticated
  /\ UNCHANGED <<props, router, fetched, pageState, mounted, notifications, lastPayload>>
  /\ render
  /\ lastEvent' = [op |-> "auth", sort |-> <<>>, page |-> currentPageNumber]

\* push(`${route}?pageNumber=${currentPageNumber}`, undefined, {shallow: true}):
\* the router adds a history entry unless the URL is the one already shown
pushPageNumber ==
  /\ query' = NumberToString(currentPageNumber)
  /\ historyLen' = (IF query = NumberToString(currentPageNumber) THEN historyLen ELSE historyLen + 1)
  /\ UNCHANGED <<location, returnRoute>>

\* a completion handler that appends the new rows to the old ones
onCompleted_merge(count, data) ==
  /\ hasRetrievedData' = TRUE
  /\ entities' = entities \o data
  /\ totalPages' = calculateTotalPages(currentPageSize, count)
  /\ totalRecords' = count
  /\ IF canPaginate(currentPageSize, count) /\ isPaginationEnabled
     THEN pushPageNumber
     ELSE UNCHANGED router

\* a completion handler that writes the URL whenever pagination is enabled
onCompleted_alwaysPush(count, data) ==
  /\ hasRetrievedData' = TRUE
  /\ entities' = data
  /\ totalPages' = calculateTotalPages(currentPageSize, count)
  /\ totalRecords' = count
  /\ IF isPaginationEnabled
     THEN pushPageNumber
     ELSE UNCHANGED router

\* a completion handler that drops a response while another request is pending
onCompleted_latestOnly(count, data) ==
  IF Len(inFlight) > 1
  THEN UNCHANGED <<fetched, router>>
  ELSE /\ hasRetrievedData' = TRUE
       /\ entities' = data
       /\ totalPages' = calculateTotalPages(currentPageSize, count)
       /\ totalRecords' = count
       /\ IF canPaginate(currentPageSize, count) /\ isPaginationEnabled
          THEN pushPageNumber
          ELSE UNCHANGED router

onCompleted(count, data) ==
  /\ hasRetrievedData' = TRUE
  /\ entities' = data
  /\ totalPages' = calculateTotalPages(currentPageSize, count)
  /\ totalRecords' = count
  /\ IF canPaginate(currentPageSize, count) /\ isPaginationEnabled
     THEN pushPageNumber
     ELSE UNCHANGED router

\* an error handler that also clears the table
onError_reset ==
  /\ notifications' = notifications + 1
  /\ hasRetrievedData' = FALSE
  /\ entities' = <<>>
  /\ UNCHANGED <<totalPages, totalRecords>>

onError ==
  /\ notifications' = notifications + 1
  /\ UNCHANGED fetched

RemoveAt(s, i) == SubSeq(s, 1, i - 1) \o SubSeq(s, i + 1, Len(s))

\* the payloads the data provider may answer a request with
Payloads(request) ==
  {p \in [count : 0..MaxCount, data : ResponseData] :
     Len(p.data) <= p.count /\ Len(p.data) <= request.pagination.take}

\* the data provider answers any pending request, in any order
responseCompleted ==
  /\ Showing
  /\ \E i \in DOMAIN inFlight :
       \E payload \in Payloads(inFlight[i]) :
         /\ onCompleted(payload.count, payload.data)
         /\ inFlight' = RemoveAt(inFlight, i)
         /\ lastPayload' = [count |-> payload.count, data |-> payload.data,
                            request |-> <<inFlight[i]>>]
  /\ columns' = getTableColumns(totalRecords')
  /\ UNCHANGED <<props, pageState, mounted, isAuthenticated, issuedCount,
                 signOutCalls, notifications>>
  /\ lastEvent' = [op |-> "completed", sort |-> <<>>, page |-> currentPageNumber]

responseFailed ==
  /\ Showing
  /\ \E i \in DOMAIN inFlight : inFlight' = RemoveAt(inFlight, i)
  /\ onError
  /\ UNCHANGED <<props, router, pageState, mounted, isAuthenticated, columns,
                 issuedCount, signOutCalls, lastPayload>>
  /\ lastEvent' = [op |-> "error", sort |-> <<>>, page |-> currentPageNumber]

\* push(`${ProtectedRoute.Entities}/${id}?returnRoute=...`): a new history entry,
\* the detail page replaces the table
handleEntityClick(id) ==
  /\ Showing
  /\ returnRoute' = NumberToString(currentPageNumber)
  /\ historyLen' = historyLen + 1
  /\ location' = "detail"
  /\ UNCHANGED <<props, query, fetched, pageState, sinks, mounted, isAuthenticated,
                 columns, lastPayload>>
  /\ lastEvent' = [op |-> "click", sort |-> <<>>, page |-> currentPageNumber]

Next ==
  \/ Mount
  \/ \E number \in 1..MaxPage : handlePageNumberChange(number)
  \/ \E newSortingState \in SortInputs : handleSortColumnChange(newSortingState)
  \/ authenticationChange
  \/ responseCompleted
  \/ responseFailed
  \/ \E i \in DOMAIN entities : handleEntityClick(entities[i])

Spec == Init /\ [][Next]_vars

\* ---------------------------------------------------------------- claims
\* the request issued by the step, the last one appended to inFlight
issued == inFlight'[Len(inFlight')]

\* the least k with k * d >= n
CeilDiv(n, d) == CHOOSE k \in 0..n : k * d >= n /\ (k = 0 \/ (k - 1) * d < n)

\* C1: whenever the fetch effect runs (on mount or after a change of one of its
\* dependencies) while the authentication flag is false, signOut is called and no
\* request is issued; every request is issued by a step whose render read the
\* flag as true.
C1_NoFetchWithoutSession ==
  [][/\ (((~mounted /\ mounted') \/ effectDeps' # effectDeps) /\ ~isAuthenticated')
          => (signOutCalls' = signOutCalls + 1 /\ issuedCount' = issuedCount
              /\ inFlight' = inFlight)
     /\ (issuedCount' # issuedCount \/ Len(inFlight') > Len(inFlight))
          => isAuthenticated']_vars

\* an unauthenticated user has mounted the view: sign-out, no request
C1_Witness ==
  /\ lastEvent.op = "mount" /\ ~isAuthenticated
  /\ signOutCalls = 1 /\ issuedCount = 0 /\ inFlight = <<>>

\* C2: for an authenticated user, a page change or a sort change that alters a
\* dependency of the effect issues exactly one request, also when the sort change
\* is made on a page other than 1.
C2_OneFetchPerChange ==
  [][(lastEvent'.op \in {"page", "sort"} /\ isAuthenticated /\ effectDeps' # effectDeps)
       => (issuedCount' = issuedCount + 1 /\ Len(inFlight') = Len(inFlight) + 1)]_vars

\* a sort change made on page 2 that changed the sort field: mount's request and one more
C2_Witness ==
  /\ lastEvent.op = "sort" /\ lastEvent.page = 2 /\ isAuthenticated
  /\ sortFieldOf(lastEvent.sort) = <<"name">>
  /\ issuedCount = 2 /\ Len(inFlight) = 2

\* C3: every issued request carries take = currentPageSize, the field and direction of
\* the first entry of the sorting state, and skip = (currentPageNumber - 1) *
\* currentPageSize with pagination enabled, 0 with pagination disabled, all taken
\* from the PageState of the render that issued it.
C3_RequestCarriesPageState ==
  [][issuedCount' > issuedCount
       => /\ issued.pagination.take = currentPageSize'
          /\ issued.pagination.skip =
               (IF isPaginationEnabled
                THEN (currentPageNumber' - 1) * currentPageSize' ELSE 0)
          /\ IF sortingState' = <<>>
             THEN issued.sort.field = <<>> /\ issued.sort.isDescending = <<>>
             ELSE /\ issued.sort.field = <<sortingState'[1].id>>
                  /\ issued.sort.isDescending = <<sortingState'[1].desc>>]_vars

\* ?pageNumber=2 on mount, pagination enabled, maxPageSize unset: skip = default size
C3_Witness ==
  /\ lastEvent.op = "mount" /\ query = <<"2">> /\ isPaginationEnabled /\ maxPageSize = <<>>
  /\ Len(inFlight) = 1
  /\ inFlight[1].pagination = [skip |-> DefaultPageSize, take |-> DefaultPageSize]

\* C4: after handleSortColumnChange, from any page number, currentPageNumber is 1 and
\* the sorting state is the new one; the request the change triggers is issued for
\* page 1 (skip = 0) with the new sort field and direction.
C4_SortResetsPage ==
  [][lastEvent'.op = "sort"
       => /\ currentPageNumber' = 1
          /\ sortingState' = lastEvent'.sort
          /\ (isAuthenticated /\ effectDeps' # effectDeps) => issuedCount' > issuedCount
          /\ issuedCount' > issuedCount
               => /\ issued.pagination.skip = 0
                  /\ issued.sort.field = sortFieldOf(lastEvent'.sort)
                  /\ issued.sort.isDescending = isDescendingSortOf(lastEvent'.sort)]_vars

\* a sort change made on page 2 with pagination enabled: page 1, skip 0, new sort
C4_Witness ==
  /\ lastEvent.op = "sort" /\ lastEvent.page = 2 /\ isPaginationEnabled
  /\ currentPageNumber = 1 /\ sortingState = <<[id |-> "name", desc |-> TRUE]>>
  /\ issuedCount = 2 /\ Len(inFlight) = 2
  /\ inFlight[2].pagination.skip = 0 /\ inFlight[2].sort.field = <<"name">>
  /\ inFlight[1].pagination.skip > 0

\* C5: a successful response {count, data} leaves hasRetrievedData true, entities =
\* data, totalRecords = count and totalPages = ceil(count / currentPageSize); every
\* other step leaves these four values unchanged.
C5_DerivedFromLastSuccess ==
  [][IF lastEvent'.op = "completed"
     THEN /\ hasRetrievedData'
          /\ entities' = lastPayload'.data
          /\ totalRecords' = lastPayload'.count
          /\ totalPages' = CeilDiv(lastPayload'.count, currentPageSize')
     ELSE UNCHANGED fetched]_vars

\* two responses have succeeded, the second with count 3 at page size 2: 2 pages
C5_Witness ==
  /\ lastEvent.op = "completed" /\ issuedCount = 2 /\ inFlight = <<>> /\ notifications = 0
  /\ currentPageSize = 2 /\ lastPayload.count = 3 /\ lastPayload.data = <<"e2", "e1">>
  /\ hasRetrievedData /\ entities = <<"e2", "e1">> /\ totalRecords = 3 /\ totalPages = 2

\* C6: a failed fetch shows exactly one notification, issues no request, and leaves
\* entities, totalRecords, totalPages, hasRetrievedData, the page number, the sort
\* state and the URL as they were.
C6_FailureLeavesState ==
  [][lastEvent'.op = "error"
       => /\ notifications' = notifications + 1
          /\ issuedCount' = issuedCount
          /\ Len(inFlight') = Len(inFlight) - 1
          /\ UNCHANGED <<fetched, currentPageNumber, sortingState, query,
                         historyLen>>]_vars

\* a fetch has failed after an earlier one had delivered rows: the rows are still there
C6_Witness ==
  /\ lastEvent.op = "error" /\ notifications = 1
  /\ hasRetrievedData /\ entities = <<"e2", "e1">> /\ totalRecords = 3

\* C7: a successful response writes the page number into the URL exactly when
\* pagination is enabled and count > currentPageSize; the value written is
\* currentPageNumber, which the URL then parses back to; otherwise the response
\* leaves the URL unchanged.
C7_UrlWrittenIffMultiPage ==
  [][lastEvent'.op = "completed"
       => IF isPaginationEnabled /\ lastPayload'.count > currentPageSize
          THEN /\ query' = NumberToString(currentPageNumber')
               /\ getPageNumberFromQuerystring(query') = currentPageNumber'
          ELSE UNCHANGED <<query, historyLen>>]_vars

\* a multi-page response has been applied on page 2 of a view opened without a
\* page number in its URL
C7_Witness ==
  /\ lastEvent.op = "completed" /\ isPaginationEnabled
  /\ lastPayload.count > currentPageSize
  /\ currentPageNumber = 2 /\ query = <<"2">> /\ historyLen = 2

\* C8: the length of the browser history grows only through row selection, never
\* through the pageNumber URL update of a successful response.
C8_HistoryGrowsOnlyByRowSelection ==
  [][historyLen' > historyLen => lastEvent'.op = "click"]_vars

\* C9: name, abn, acn, status and createdAtUtc are sortable exactly when totalRecords
\* is greater than 1; the entity-type column is never sortable.
C9_SortingEnabledIffManyRecords ==
  /\ \A c \in {"name", "abn", "acn", "status", "createdAtUtc"} :
       columns[c] <=> totalRecords > 1
  /\ ~columns["type.name"]

\* a response with more than one record has been applied and sorting is enabled
C9_Witness ==
  /\ lastEvent.op = "completed" /\ totalRecords = 2
  /\ columns["name"] /\ columns["createdAtUtc"] /\ ~columns["type.name"]

\* C10: a response is applied whenever it arrives: also when the request it answers
\* is not the one for the current page number and sort, entities, totalRecords and
\* totalPages are those of the last response to complete.
C10_StaleResponseOverwrites ==
  (/\ lastPayload.request # <<>>
   /\ lastPayload.request # <<requestVariables(currentPageNumber, currentPageSize,
                                                sortingState)>>)
    => /\ entities = lastPayload.data
       /\ totalRecords = lastPayload.count
       /\ totalPages = CeilDiv(lastPayload.count, currentPageSize)

\* both requests of an authenticated user have been answered successfully, the older
\* one last: the rows shown are those of a request for another page or sort
C10_Witness ==
  /\ lastEvent.op = "completed" /\ inFlight = <<>> /\ issuedCount = 2
  /\ notifications = 0 /\ signOutCalls = 0 /\ isAuthenticated
  /\ lastPayload.request # <<requestVariables(currentPageNumber, currentPageSize,
                                               sortingState)>>
  /\ entities = lastPayload.data /\ entities # <<>>

====
